---- MODULE Spec2Model ----
(***************************************************************************)
(* A model of MNIST_skeleton.py: the capsule network's squash function,    *)
(* PrimaryCapsules, DigitCapsule (dynamic routing), CapsNet.forward and    *)
(* the margin loss.                                                        *)
(*                                                                         *)
(* Tensors are modelled with their torch semantics: a tensor is a record   *)
(* [shape, at] where shape is the sequence of dimension sizes and at maps  *)
(* every index tuple (1-based here, 0-based in torch) to a value.  Every   *)
(* torch operation the source calls (indexing with None, matmul with       *)
(* broadcasting, squeeze, unsqueeze, transpose, sum over a dimension,      *)
(* softmax over a dimension, norm, cat, view) is an operator on such       *)
(* records that follows torch's shape rules, so shape errors and silent    *)
(* broadcasts are outcomes of the model and not assumptions.               *)
(*                                                                         *)
(* Real numbers are fixed-point: the integer x stands for x / Scale.       *)
(* Coupling coefficients are exact fractions [n, d].  exp is modelled as   *)
(* a positive power of two of the (max-shifted) logit that underflows to   *)
(* zero below -ExpUnderflow, as exp(x - max) does in floating point.       *)
(***************************************************************************)
EXTENDS Integers, Sequences, FiniteSets, TLC

\* ------------------------------------------------------------ constants
NumDigits == 10
InChannels == 8
OutChannels == 16
NumIterations == 3

\* -------------------------------------------------------------- bounds
Scale == 50
ExpUnderflow == 8
MaxBatch == 2
MaxRoute == 2

\* ------------------------------------------------------ integer helpers
Quot(a, b) == IF a >= 0 THEN a \div b ELSE -((-a) \div b)

FxMul(x, y) == Quot(x * y, Scale)

FxDiv(x, y) == Quot(x * Scale, y)

Max2(a, b) == IF a >= b THEN a ELSE b

RECURSIVE SumUpTo(_, _)
SumUpTo(f, n) == IF n = 0 THEN 0 ELSE f[n] + SumUpTo(f, n - 1)

RECURSIVE Pow2(_)
Pow2(n) == IF n = 0 THEN 1 ELSE 2 * Pow2(n - 1)

RECURSIVE SqrtBetween(_, _, _)
SqrtBetween(x, lo, hi) ==
    IF lo = hi THEN lo
    ELSE LET mid == (lo + hi + 1) \div 2
         IN  IF mid * mid <= x THEN SqrtBetween(x, mid, hi)
             ELSE SqrtBetween(x, lo, mid - 1)

\* floor of the square root, x >= 0
ISqrt(x) == SqrtBetween(x, 0, 46340)

\* --------------------------------------------------------- tensor helpers
RemoveAt(q, p) == [k \in 1..(Len(q) - 1) |-> IF k < p THEN q[k] ELSE q[k + 1]]

InsertAt(q, p, x) ==
    [k \in 1..(Len(q) + 1) |-> IF k < p THEN q[k] ELSE IF k = p THEN x ELSE q[k - 1]]

SwapAt(q, p1, p2) ==
    [k \in 1..Len(q) |-> IF k = p1 THEN q[p2] ELSE IF k = p2 THEN q[p1] ELSE q[k]]

RECURSIVE Idx(_)
Idx(sh) ==
    IF Len(sh) = 0 THEN {<<>>}
    ELSE {<<i>> \o r : i \in 1..sh[1], r \in Idx(Tail(sh))}

RECURSIVE Numel(_)
Numel(sh) == IF Len(sh) = 0 THEN 1 ELSE sh[1] * Numel(Tail(sh))

Tensor(sh, F(_)) == [shape |-> sh, at |-> [i \in Idx(sh) |-> F(i)]]

NoTensor == [shape |-> <<0>>, at |-> <<>>]

Dim(t) == Len(t.shape)

Zeros(sh) == Tensor(sh, LAMBDA i : 0)

\* torch.Tensor.unsqueeze(d): a new dimension of size 1 at (0-based) d
CanUnsqueeze(t, d) == d <= Dim(t)

Unsqueeze(t, d) ==
    Tensor(InsertAt(t.shape, d + 1, 1), LAMBDA i : t.at[RemoveAt(i, d + 1)])

\* torch.squeeze(t): every dimension of size 1 is removed
RECURSIVE SqueezeShape(_)
SqueezeShape(sh) ==
    IF Len(sh) = 0 THEN <<>>
    ELSE IF sh[1] = 1 THEN SqueezeShape(Tail(sh))
    ELSE <<sh[1]>> \o SqueezeShape(Tail(sh))

RECURSIVE Unsqueezed(_, _)
Unsqueezed(i, sh) ==
    IF Len(sh) = 0 THEN <<>>
    ELSE IF sh[1] = 1 THEN <<1>> \o Unsqueezed(i, Tail(sh))
    ELSE <<i[1]>> \o Unsqueezed(Tail(i), Tail(sh))

Squeeze(t) == Tensor(SqueezeShape(t.shape), LAMBDA i : t.at[Unsqueezed(i, t.shape)])

\* torch.Tensor.transpose(d1, d2), 0-based dimensions
CanTranspose(t, d1, d2) == d1 < Dim(t) /\ d2 < Dim(t)

Transpose(t, d1, d2) ==
    Tensor(SwapAt(t.shape, d1 + 1, d2 + 1), LAMBDA i : t.at[SwapAt(i, d1 + 1, d2 + 1)])

\* torch.sum(t, dim=d), 0-based dimension
CanSumDim(t, d) == d < Dim(t)

SumDim(t, d) ==
    Tensor(RemoveAt(t.shape, d + 1),
           LAMBDA i : SumUpTo([k \in 1..t.shape[d + 1] |-> t.at[InsertAt(i, d + 1, k)]],
                              t.shape[d + 1]))

\* broadcasting of two shapes, aligned at the last dimension
PadShape(sh, n) == [k \in 1..n |-> IF k <= n - Len(sh) THEN 1 ELSE sh[k - (n - Len(sh))]]

Broadcastable(s1, s2) ==
    LET n == Max2(Len(s1), Len(s2))
        p1 == PadShape(s1, n)
        p2 == PadShape(s2, n)
    IN  \A k \in 1..n : p1[k] = p2[k] \/ p1[k] = 1 \/ p2[k] = 1

BroadcastShape(s1, s2) ==
    LET n == Max2(Len(s1), Len(s2))
        p1 == PadShape(s1, n)
        p2 == PadShape(s2, n)
    IN  [k \in 1..n |-> IF p1[k] = 1 THEN p2[k] ELSE p1[k]]

\* the index into a tensor of shape sh that the broadcast index i reads
BIdx(i, sh) ==
    [k \in 1..Len(sh) |-> IF sh[k] = 1 THEN 1 ELSE i[k + (Len(i) - Len(sh))]]

Add(x, y) ==
    Tensor(BroadcastShape(x.shape, y.shape),
           LAMBDA i : x.at[BIdx(i, x.shape)] + y.at[BIdx(i, y.shape)])

\* torch.matmul of two tensors of at least 2 dimensions: the batch dimensions
\* broadcast, the last two are multiplied as matrices
BatchOf(sh) == SubSeq(sh, 1, Len(sh) - 2)

CanMatmul(x, y) ==
    /\ Dim(x) >= 2
    /\ Dim(y) >= 2
    /\ x.shape[Dim(x)] = y.shape[Dim(y) - 1]
    /\ Broadcastable(BatchOf(x.shape), BatchOf(y.shape))

Matmul(x, y) ==
    LET bs == BroadcastShape(BatchOf(x.shape), BatchOf(y.shape))
        nb == Len(bs)
        m  == x.shape[Dim(x)]
    IN  Tensor(bs \o <<x.shape[Dim(x) - 1], y.shape[Dim(y)]>>,
               LAMBDA i :
                 LET bi == SubSeq(i, 1, nb)
                     xi == BIdx(bi, BatchOf(x.shape))
                     yi == BIdx(bi, BatchOf(y.shape))
                 IN  Quot(SumUpTo([k \in 1..m |->
                                     x.at[xi \o <<i[nb + 1], k>>] * y.at[yi \o <<k, i[nb + 2]>>]],
                                  m),
                          Scale))

\* torch.norm(t): the 2-norm over ALL elements of the tensor, a scalar
RECURSIVE SumSquaresFrom(_, _)
SumSquaresFrom(t, prefix) ==
    IF Len(prefix) = Dim(t) THEN t.at[prefix] * t.at[prefix]
    ELSE LET n == t.shape[Len(prefix) + 1]
         IN  SumUpTo([k \in 1..n |-> SumSquaresFrom(t, prefix \o <<k>>)], n)

SumSquares(t) == SumSquaresFrom(t, <<>>)

\* torch.sum(t): the sum of all elements
RECURSIVE SumAllFrom(_, _)
SumAllFrom(t, prefix) ==
    IF Len(prefix) = Dim(t) THEN t.at[prefix]
    ELSE LET n == t.shape[Len(prefix) + 1]
         IN  SumUpTo([k \in 1..n |-> SumAllFrom(t, prefix \o <<k>>)], n)

SumAll(t) == SumAllFrom(t, <<>>)

Norm(t) == ISqrt(SumSquares(t))

\* ---------------------------------------------------------------- squash
\* squash, lines 21-29.  The norm is input.norm(): one scalar for the whole
\* tensor.  The assertion of line 26 is SquashAsserts.
SquashAsserts(input) == ~(Norm(input) > 0)

Squash(input) ==
    LET norm         == Norm(input)
        squared_norm == FxMul(norm, norm)
        factor       == FxDiv(squared_norm, Scale + squared_norm)
    IN  Tensor(input.shape, LAMBDA i : FxMul(factor, FxDiv(input.at[i], norm)))

\* ------------------------------------------------------------- softmax
\* F.softmax(b, dim=d): along (0-based) dimension d, exp(b - max) / sum.
\* The result holds exact fractions [n |-> numerator, d |-> denominator].
CanSoftmax(t, d) == d < Dim(t)

\* x <= 0 is a max-shifted logit; \div rounds down
Exp(x) == IF x < -(ExpUnderflow * Scale) THEN 0 ELSE Pow2(ExpUnderflow + (x \div Scale))

RECURSIVE MaxUpTo(_, _)
MaxUpTo(f, n) == IF n = 1 THEN f[1] ELSE Max2(f[n], MaxUpTo(f, n - 1))

Softmax(t, d) ==
    LET n        == t.shape[d + 1]
        Line(i)  == [k \in 1..n |-> t.at[[i EXCEPT ![d + 1] = k]]]
        Top(i)   == MaxUpTo(Line(i), n)
        Total(i) == SumUpTo([k \in 1..n |-> Exp(Line(i)[k] - Top(i))], n)
    IN  Tensor(t.shape, LAMBDA i : [n |-> Exp(t.at[i] - Top(i)), d |-> Total(i)])

\* elementwise product, with broadcasting, of a fixed-point tensor and a
\* tensor of fractions
MulCoef(x, c) ==
    Tensor(BroadcastShape(x.shape, c.shape),
           LAMBDA i : LET q == c.at[BIdx(i, c.shape)]
                      IN  Quot(x.at[BIdx(i, x.shape)] * q.n, q.d))

\* -------------------------------------------------------- DigitCapsule
VARIABLES
    num_route_nodes,   \* self.num_route_nodes
    num_iterations,    \* self.num_iterations
    w_seed,            \* names the value torch.randn gave self.W
    pc,                \* position in DigitCapsule.forward
    u, u_hat, b, c, s, v,   \* the locals of forward
    it,                \* the loop variable i of line 108
    ret,               \* what the call returned
    err,               \* the exception that ended the call
    arg_shape,         \* history: the shape of the argument of this pass
    trace              \* history: the statements executed in this pass

routeVars ==
    <<num_route_nodes, num_iterations, w_seed, pc, u, u_hat, b, c, s, v, it, ret, err,
      arg_shape, trace>>

\* self.W, lines 92-97: shape [1, num_route_nodes, num_digits, out_channels,
\* in_channels]; the entries torch.randn drew are one of a few fixed patterns
WeightEntry(seed, i) == (((seed + i[2] + 2 * i[3] + 3 * i[4] + 5 * i[5]) % 3) - 1) * Scale

Weights(seed, routes) ==
    Tensor(<<1, routes, NumDigits, OutChannels, InChannels>>,
           LAMBDA i : WeightEntry(seed, i))

\* the inputs a caller passes: shape [batch, capsules, dims]
InputEntry(seed, i) ==
    IF seed = 0 THEN 0
    ELSE (((seed * i[1] + 3 * i[2] + 7 * i[3]) % 5) - 2) * (Scale \div 5)

InputTensor(batch, capsules, dims, seed) ==
    Tensor(<<batch, capsules, dims>>, LAMBDA i : InputEntry(seed, i))

WSeeds == {0, 1}

InputSeeds == {0, 1, 2}

IterationCounts == {0, 1, 2, NumIterations}

InputDims == {InChannels, InChannels - 1}

RouteInit ==
    /\ num_route_nodes \in 1..MaxRoute
    /\ num_iterations \in IterationCounts
    /\ w_seed \in WSeeds
    /\ pc = "idle"
    /\ u = NoTensor /\ u_hat = NoTensor /\ b = NoTensor /\ c = NoTensor
    /\ s = NoTensor /\ v = NoTensor
    /\ it = 0
    /\ ret = NoTensor
    /\ err = "none"
    /\ arg_shape = <<>>
    /\ trace = <<>>

\* an exception leaves forward: its frame, with every local, is gone
Raise(kind, step) ==
    /\ pc' = "error"
    /\ err' = kind
    /\ trace' = Append(trace, step)
    /\ u' = NoTensor /\ u_hat' = NoTensor /\ b' = NoTensor /\ c' = NoTensor
    /\ s' = NoTensor /\ v' = NoTensor
    /\ it' = 0
    /\ UNCHANGED <<num_route_nodes, num_iterations, w_seed, ret, arg_shape>>

Step(to, step) ==
    /\ pc' = to
    /\ trace' = Append(trace, step)
    /\ UNCHANGED <<num_route_nodes, num_iterations, w_seed, ret, err, arg_shape>>

\* a caller invokes forward(u), line 99
Forward ==
    /\ pc \in {"idle", "done", "error"}
    /\ \E batch \in 1..MaxBatch, capsules \in 1..MaxRoute, dims \in InputDims,
          seed \in InputSeeds :
          /\ u' = InputTensor(batch, capsules, dims, seed)
          /\ arg_shape' = <<batch, capsules, dims>>
    /\ pc' = "votes"
    /\ ret' = NoTensor
    /\ err' = "none"
    /\ trace' = <<>>
    /\ UNCHANGED <<num_route_nodes, num_iterations, w_seed, u_hat, b, c, s, v, it>>

\* lines 100-102
CanVotes(W, x) == Dim(x) >= 3 /\ CanMatmul(W, Unsqueeze(Unsqueeze(x, 2), 4))

VotesOf(W, x) == Squeeze(Matmul(W, Unsqueeze(Unsqueeze(x, 2), 4)))

Votes ==
    /\ pc = "votes"
    /\ LET W == Weights(w_seed, num_route_nodes)
       IN  IF CanVotes(W, u)
           THEN /\ u_hat' = VotesOf(W, u)
                /\ Step("logits", "u_hat")
                /\ UNCHANGED <<u, b, c, s, v, it>>
           ELSE Raise("shape", "u_hat")

\* line 106, and the first test of the loop of line 108
InitialLogits(routes) == Zeros(<<routes, NumDigits>>)

LoopContinues(i, n) == i < n

ZeroLogits ==
    /\ pc = "logits"
    /\ b' = InitialLogits(num_route_nodes)
    /\ it' = 0
    /\ Step(IF LoopContinues(0, num_iterations) THEN "coupling" ELSE "return", "b0")
    /\ UNCHANGED <<u, u_hat, c, s, v>>

\* line 110 with the softmax over the wrong axis: over the lower capsules
CouplingOverRoutes(logits) == Unsqueeze(Unsqueeze(Softmax(logits, 0), 2), 0)

\* line 110
CouplingOf(logits) == Unsqueeze(Unsqueeze(Softmax(logits, 1), 2), 0)

Coupling ==
    /\ pc = "coupling"
    /\ IF CanSoftmax(b, 1)
       THEN /\ c' = CouplingOf(b)
            /\ Step("aggregate", "c")
            /\ UNCHANGED <<u, u_hat, b, s, v, it>>
       ELSE Raise("shape", "c")

\* line 112
CanAggregate(votes, coef) ==
    /\ Broadcastable(votes.shape, coef.shape)
    /\ Len(BroadcastShape(votes.shape, coef.shape)) > 1

AggregateOf(votes, coef) == SumDim(MulCoef(votes, coef), 1)

Aggregate ==
    /\ pc = "aggregate"
    /\ IF CanAggregate(u_hat, c)
       THEN /\ s' = AggregateOf(u_hat, c)
            /\ Step("activate", "s")
            /\ UNCHANGED <<u, u_hat, b, c, v, it>>
       ELSE Raise("shape", "s")

\* line 114
Activate ==
    /\ pc = "activate"
    /\ IF SquashAsserts(s)
       THEN Raise("assert", "v")
       ELSE /\ v' = Squash(s)
            /\ Step("agree", "v")
            /\ UNCHANGED <<u, u_hat, b, c, s, it>>

\* lines 116-117, and the next test of the loop of line 108
CanAgree(votes, out, logits) ==
    /\ CanTranspose(votes, 1, 2)
    /\ CanUnsqueeze(out, 3)
    /\ CanMatmul(Transpose(votes, 1, 2), Unsqueeze(out, 3))
    /\ LET a == Squeeze(Matmul(Transpose(votes, 1, 2), Unsqueeze(out, 3)))
       IN  /\ CanTranspose(a, 1, 2)
           /\ Broadcastable(logits.shape, SumDim(Transpose(a, 1, 2), 0).shape)

AgreementOf(votes, out) ==
    SumDim(Transpose(Squeeze(Matmul(Transpose(votes, 1, 2), Unsqueeze(out, 3))), 1, 2), 0)

LogitUpdate(logits, agreement) == Add(logits, agreement)

Agree ==
    /\ pc = "agree"
    /\ IF CanAgree(u_hat, v, b)
       THEN /\ b' = LogitUpdate(b, AgreementOf(u_hat, v))
            /\ it' = it + 1
            /\ Step(IF LoopContinues(it + 1, num_iterations) THEN "coupling" ELSE "return", "b")
            /\ UNCHANGED <<u, u_hat, c, s, v>>
       ELSE Raise("shape", "b")

\* line 118: v is unbound when the loop body never ran
Return ==
    /\ pc = "return"
    /\ IF v = NoTensor
       THEN Raise("unbound", "return")
       ELSE /\ ret' = v
            /\ pc' = "done"
            /\ trace' = Append(trace, "return")
            /\ u' = NoTensor /\ u_hat' = NoTensor /\ b' = NoTensor /\ c' = NoTensor
            /\ s' = NoTensor /\ v' = NoTensor
            /\ it' = 0
            /\ UNCHANGED <<num_route_nodes, num_iterations, w_seed, err, arg_shape>>

RouteOff ==
    /\ num_route_nodes = 0 /\ num_iterations = 0 /\ w_seed = 0
    /\ pc = "off"
    /\ u = NoTensor /\ u_hat = NoTensor /\ b = NoTensor /\ c = NoTensor
    /\ s = NoTensor /\ v = NoTensor
    /\ it = 0 /\ ret = NoTensor /\ err = "none" /\ arg_shape = <<>> /\ trace = <<>>

\* ------------------------------------------------------ squash, called
VARIABLES
    sq_pc,     \* "idle", "called", "returned" or "raised"
    sq_in,     \* the argument of squash
    sq_out     \* what squash returned

squashVars == <<sq_pc, sq_in, sq_out>>

SquashDims == 2

SquashEntries == {0, Scale, -2 * Scale}

SquashOff == sq_pc = "off" /\ sq_in = NoTensor /\ sq_out = NoTensor

SquashInit == sq_pc = "idle" /\ sq_in = NoTensor /\ sq_out = NoTensor

\* a caller passes a tensor [batch, capsules, dims] to squash
SquashCall ==
    /\ sq_pc = "idle"
    /\ \E batch \in 1..MaxBatch, capsules \in 1..MaxRoute :
         \E e \in [Idx(<<batch, capsules, SquashDims>>) -> SquashEntries] :
            sq_in' = [shape |-> <<batch, capsules, SquashDims>>, at |-> e]
    /\ sq_pc' = "called"
    /\ UNCHANGED sq_out

\* lines 26-29
SquashRun ==
    /\ sq_pc = "called"
    /\ IF SquashAsserts(sq_in)
       THEN sq_pc' = "raised" /\ sq_out' = NoTensor
       ELSE sq_pc' = "returned" /\ sq_out' = Squash(sq_in)
    /\ UNCHANGED sq_in

\* the caller drops the result
SquashForget ==
    /\ sq_pc \in {"returned", "raised"}
    /\ sq_pc' = "idle"
    /\ sq_in' = NoTensor
    /\ sq_out' = NoTensor

\* -------------------------------------------------------- loss, called
VARIABLES
    loss_pc,       \* "idle", "called" or "returned"
    loss_v,        \* the argument v
    loss_target,   \* the argument target
    loss_out       \* the returned scalar

lossVars == <<loss_pc, loss_v, loss_target, loss_out>>

\* l = 0.5 and m = 0.9, lines 138-139
LossLambda == Scale \div 2

Margin == (9 * Scale) \div 10

\* lines 140-145; target holds integers, T is target as floats
LossOf(out, target, batch_size) ==
    LET norm == Norm(out)
        up   == Max2(0, Margin - norm)
        down == Max2(0, norm - (Scale - Margin))
        L    == Tensor(target.shape,
                       LAMBDA i : LET T == target.at[i] * Scale
                                  IN  FxMul(T, FxMul(up, up))
                                      + FxMul(FxMul(LossLambda, Scale - T), FxMul(down, down)))
    IN  Quot(SumAll(L), batch_size)

\* the classes the sampled outputs and labels use
ClassSample == {0, 3, 9}

LengthSample == {0, Scale \div 2, Scale}

\* an output tensor [batch, 10, out_channels]: in sample n the capsule of
\* class hot[n] has length len, the others are zero
OutputTensor(batch, hot, len) ==
    Tensor(<<batch, NumDigits, OutChannels>>,
           LAMBDA i : IF i[2] = hot[i[1]] + 1 /\ i[3] = 1 THEN len ELSE 0)

OneHot(batch, labels) ==
    Tensor(<<batch, NumDigits>>, LAMBDA i : IF i[2] = labels[i[1]] + 1 THEN 1 ELSE 0)

\* the targets of the MNIST loader, which train passes on (lines 157-162)
Labels(batch, labels) == Tensor(<<batch>>, LAMBDA i : labels[i[1]])

LossOff ==
    loss_pc = "off" /\ loss_v = NoTensor /\ loss_target = NoTensor /\ loss_out = 0

LossInit ==
    loss_pc = "idle" /\ loss_v = NoTensor /\ loss_target = NoTensor /\ loss_out = 0

LossCall ==
    /\ loss_pc = "idle"
    /\ \E batch \in 1..MaxBatch :
         \E hot \in [1..batch -> ClassSample], labels \in [1..batch -> ClassSample],
            len \in LengthSample :
            /\ loss_v' = OutputTensor(batch, hot, len)
            /\ \/ loss_target' = OneHot(batch, labels)
               \/ loss_target' = Labels(batch, labels)
    /\ loss_pc' = "called"
    /\ UNCHANGED loss_out

LossRun ==
    /\ loss_pc = "called"
    /\ loss_out' = LossOf(loss_v, loss_target, loss_v.shape[1])
    /\ loss_pc' = "returned"
    /\ UNCHANGED <<loss_v, loss_target>>

LossForget ==
    /\ loss_pc = "returned"
    /\ loss_pc' = "idle"
    /\ loss_v' = NoTensor
    /\ loss_target' = NoTensor
    /\ loss_out' = 0

\* ---------------------------------------------------- PrimaryCapsules
\* the sizes of the network: the source's 256 channels, kernels of 9, 32
\* capsule maps and 28x28 images are scaled down
Conv1Channels == 2
Kernel == 2
CapsMaps == 2
ImageSize == 3
Conv2Stride == 2
CapsDims == 8

\* nn.Conv2d with its weights and bias named by seed: input [batch,
\* in_channels, height, width], no padding
ConvWeight(seed, co, ci, kh, kw) == (((seed + co + 2 * ci + 3 * kh + 5 * kw) % 3) - 1) * (Scale \div 2)

ConvBias(seed, co) == (((seed + co) % 3) - 1) * (Scale \div 5)

ConvOutSize(size, kernel, stride) == ((size - kernel) \div stride) + 1

CanConv(x, in_channels, kernel) ==
    /\ Dim(x) = 4
    /\ x.shape[2] = in_channels
    /\ x.shape[3] >= kernel
    /\ x.shape[4] >= kernel

Conv2d(x, seed, in_channels, out_channels, kernel, stride) ==
    Tensor(<<x.shape[1], out_channels,
             ConvOutSize(x.shape[3], kernel, stride),
             ConvOutSize(x.shape[4], kernel, stride)>>,
           LAMBDA i :
             ConvBias(seed, i[2])
             + SumUpTo([ci \in 1..in_channels |->
                 SumUpTo([kh \in 1..kernel |->
                   SumUpTo([kw \in 1..kernel |->
                       FxMul(ConvWeight(seed, i[2], ci, kh, kw),
                             x.at[<<i[1], ci, (i[3] - 1) * stride + kh,
                                    (i[4] - 1) * stride + kw>>])],
                     kernel)],
                   kernel)],
                 in_channels))

\* where an element of a convolution's output comes from
Origin(m, i) == [conv |-> m, sample |-> i[1], channel |-> i[2], row |-> i[3], col |-> i[4]]

\* torch.cat(list) of equally shaped tensors: along dimension 0, the default
CatOf(list) ==
    LET rows == list[1].shape[1]
    IN  Tensor(<<Len(list) * rows>> \o Tail(list[1].shape),
               LAMBDA i : list[((i[1] - 1) \div rows) + 1].at[<<((i[1] - 1) % rows) + 1>> \o Tail(i)])

\* the offset of an index in a contiguous tensor, and back
RECURSIVE Ravel(_, _)
Ravel(i, sh) ==
    IF Len(sh) = 0 THEN 0
    ELSE (i[1] - 1) * Numel(Tail(sh)) + Ravel(Tail(i), Tail(sh))

RECURSIVE Unravel(_, _)
Unravel(off, sh) ==
    IF Len(sh) = 0 THEN <<>>
    ELSE <<(off \div Numel(Tail(sh))) + 1>> \o Unravel(off % Numel(Tail(sh)), Tail(sh))

\* t.view(first, -1, last) of a contiguous tensor
CanView(t, first, last) == Numel(t.shape) % (first * last) = 0

ViewOf(t, first, last) ==
    LET sh == <<first, Numel(t.shape) \div (first * last), last>>
    IN  Tensor(sh, LAMBDA i : t.at[Unravel(Ravel(i, sh), t.shape)])

\* line 71: the convolutions, self.capsules[m] having seed m
ConvList(x) ==
    [m \in 1..CapsMaps |-> Conv2d(x, m, Conv1Channels, CapsDims, Kernel, Conv2Stride)]

OriginList(x) ==
    [m \in 1..CapsMaps |->
        Tensor(<<x.shape[1], CapsDims,
                 ConvOutSize(x.shape[3], Kernel, Conv2Stride),
                 ConvOutSize(x.shape[4], Kernel, Conv2Stride)>>,
               LAMBDA i : Origin(m, i))]

\* lines 71-73
PrimaryArrange(list, batch) == ViewOf(CatOf(list), batch, CapsDims)

VARIABLES
    prim_pc,       \* position in PrimaryCapsules.forward
    prim_x,        \* the argument x
    prim_output,   \* the local output: a list, then a tensor
    prim_origin,   \* history: where each element of output comes from
    prim_ret       \* what the call returned

primVars == <<prim_pc, prim_x, prim_output, prim_origin, prim_ret>>

PrimSeeds == {0, 1, 2, 3}

PrimSizes == {Kernel, Kernel + Conv2Stride}

FeatureEntry(seed, i) == ((seed * i[1] + i[2] + 3 * i[3] + 7 * i[4]) % 5) * (Scale \div 5)

PrimOff ==
    /\ prim_pc = "off" /\ prim_x = NoTensor /\ prim_output = NoTensor
    /\ prim_origin = NoTensor /\ prim_ret = NoTensor

PrimInit ==
    /\ prim_pc = "idle" /\ prim_x = NoTensor /\ prim_output = NoTensor
    /\ prim_origin = NoTensor /\ prim_ret = NoTensor

PrimCall ==
    /\ prim_pc = "idle"
    /\ \E batch \in 1..MaxBatch, height \in PrimSizes, width \in PrimSizes, seed \in PrimSeeds :
          prim_x' = Tensor(<<batch, Conv1Channels, height, width>>,
                           LAMBDA i : FeatureEntry(seed, i))
    /\ prim_pc' = "convs"
    /\ UNCHANGED <<prim_output, prim_origin, prim_ret>>

\* line 71
PrimConvs ==
    /\ prim_pc = "convs"
    /\ prim_output' = ConvList(prim_x)
    /\ prim_origin' = OriginList(prim_x)
    /\ prim_pc' = "cat"
    /\ UNCHANGED <<prim_x, prim_ret>>

\* line 72
PrimCat ==
    /\ prim_pc = "cat"
    /\ prim_output' = CatOf(prim_output)
    /\ prim_origin' = CatOf(prim_origin)
    /\ prim_pc' = "view"
    /\ UNCHANGED <<prim_x, prim_ret>>

\* line 73
PrimView ==
    /\ prim_pc = "view"
    /\ prim_output' = ViewOf(prim_output, prim_x.shape[1], CapsDims)
    /\ prim_origin' = ViewOf(prim_origin, prim_x.shape[1], CapsDims)
    /\ prim_pc' = "squash"
    /\ UNCHANGED <<prim_x, prim_ret>>

\* line 74
PrimSquash ==
    /\ prim_pc = "squash"
    /\ IF SquashAsserts(prim_output)
       THEN prim_pc' = "raised" /\ prim_ret' = NoTensor
       ELSE prim_pc' = "returned" /\ prim_ret' = Squash(prim_output)
    /\ UNCHANGED <<prim_x, prim_output, prim_origin>>

PrimForget ==
    /\ prim_pc \in {"returned", "raised"}
    /\ prim_pc' = "idle"
    /\ prim_x' = NoTensor /\ prim_output' = NoTensor
    /\ prim_origin' = NoTensor /\ prim_ret' = NoTensor

\* ------------------------------------------------------ CapsNet.forward
\* Two batches go through the same network side by side: frame 1 holds a
\* batch, frame 2 the same batch with the image of sample net_m replaced.
VARIABLES
    net_pc,       \* position in CapsNet.forward and, inside it, in DigitCapsule.forward
    net_m,        \* the sample whose image differs between the frames
    net_frames,   \* the locals of the two passes
    net_it        \* the loop variable of line 108

netVars == <<net_pc, net_m, net_frames, net_it>>

ImageSeeds == {0, 1, 2}

ImageEntry(seed, h, w) == ((seed * (h + 2 * w)) % 4) * (Scale \div 4)

\* a batch [batch, 1, ImageSize, ImageSize]; sample n is image seeds[n]
ImageBatch(seeds) ==
    Tensor(<<Len(seeds), 1, ImageSize, ImageSize>>,
           LAMBDA i : ImageEntry(seeds[i[1]], i[3], i[4]))

\* the network of lines 123-125
Conv1Seed == 0

NetGrid == ConvOutSize(ConvOutSize(ImageSize, Kernel, 1), Kernel, Conv2Stride)

NetRouteNodes == CapsMaps * NetGrid * NetGrid

NetWSeed == 1

Relu(t) == Tensor(t.shape, LAMBDA i : Max2(0, t.at[i]))

NoFrame ==
    [x |-> NoTensor, u |-> NoTensor, u_hat |-> NoTensor, b |-> NoTensor,
     c |-> NoTensor, s |-> NoTensor, v |-> NoTensor, ret |-> NoTensor]

NetOff == net_pc = "off" /\ net_m = 0 /\ net_frames = <<NoFrame, NoFrame>> /\ net_it = 0

NetInit == net_pc = "idle" /\ net_m = 0 /\ net_frames = <<NoFrame, NoFrame>> /\ net_it = 0

\* both passes take the step Op, or one of them raises
NetStep(Ok(_), Op(_), to) ==
    IF Ok(net_frames[1]) /\ Ok(net_frames[2])
    THEN /\ net_frames' = <<Op(net_frames[1]), Op(net_frames[2])>>
         /\ net_pc' = to
    ELSE /\ net_frames' = <<NoFrame, NoFrame>>
         /\ net_pc' = "error"

NetCall ==
    /\ net_pc = "idle"
    /\ \E batch \in 1..MaxBatch :
         \E seeds \in [1..batch -> ImageSeeds], m \in 1..batch, other \in ImageSeeds :
            /\ other # seeds[m]
            /\ net_m' = m
            /\ net_frames' = <<[NoFrame EXCEPT !.x = ImageBatch(seeds)],
                               [NoFrame EXCEPT !.x = ImageBatch([seeds EXCEPT ![m] = other])]>>
    /\ net_pc' = "conv"
    /\ net_it' = 0

\* line 129
NetConv ==
    /\ net_pc = "conv"
    /\ NetStep(LAMBDA f : CanConv(f.x, 1, Kernel),
               LAMBDA f : [f EXCEPT !.x = Relu(Conv2d(f.x, Conv1Seed, 1, Conv1Channels, Kernel, 1))],
               "primary")
    /\ UNCHANGED <<net_m, net_it>>

\* line 131: PrimaryCapsules.forward
NetPrimary ==
    /\ net_pc = "primary"
    /\ NetStep(LAMBDA f : /\ CanConv(f.x, Conv1Channels, Kernel)
                          /\ ~SquashAsserts(PrimaryArrange(ConvList(f.x), f.x.shape[1])),
               LAMBDA f : [f EXCEPT !.u = Squash(PrimaryArrange(ConvList(f.x), f.x.shape[1]))],
               "votes")
    /\ UNCHANGED <<net_m, net_it>>

\* line 133: DigitCapsule.forward, lines 100-102
NetVotes ==
    /\ net_pc = "votes"
    /\ NetStep(LAMBDA f : CanVotes(Weights(NetWSeed, NetRouteNodes), f.u),
               LAMBDA f : [f EXCEPT !.u_hat = VotesOf(Weights(NetWSeed, NetRouteNodes), f.u)],
               "logits")
    /\ UNCHANGED <<net_m, net_it>>

\* line 106
NetZeroLogits ==
    /\ net_pc = "logits"
    /\ NetStep(LAMBDA f : TRUE,
               LAMBDA f : [f EXCEPT !.b = InitialLogits(NetRouteNodes)],
               IF LoopContinues(0, NumIterations) THEN "coupling" ELSE "return")
    /\ net_it' = 0
    /\ UNCHANGED net_m

\* line 110
NetCoupling ==
    /\ net_pc = "coupling"
    /\ NetStep(LAMBDA f : CanSoftmax(f.b, 1),
               LAMBDA f : [f EXCEPT !.c = CouplingOf(f.b)],
               "aggregate")
    /\ UNCHANGED <<net_m, net_it>>

\* line 112
NetAggregate ==
    /\ net_pc = "aggregate"
    /\ NetStep(LAMBDA f : CanAggregate(f.u_hat, f.c),
               LAMBDA f : [f EXCEPT !.s = AggregateOf(f.u_hat, f.c)],
               "activate")
    /\ UNCHANGED <<net_m, net_it>>

\* line 114
NetActivate ==
    /\ net_pc = "activate"
    /\ NetStep(LAMBDA f : ~SquashAsserts(f.s),
               LAMBDA f : [f EXCEPT !.v = Squash(f.s)],
               "agree")
    /\ UNCHANGED <<net_m, net_it>>

\* lines 116-117
NetAgree ==
    /\ net_pc = "agree"
    /\ NetStep(LAMBDA f : CanAgree(f.u_hat, f.v, f.b),
               LAMBDA f : [f EXCEPT !.b = LogitUpdate(f.b, AgreementOf(f.u_hat, f.v))],
               IF LoopContinues(net_it + 1, NumIterations) THEN "coupling" ELSE "return")
    /\ net_it' = net_it + 1
    /\ UNCHANGED net_m

\* lines 118 and 135
NetReturn ==
    /\ net_pc = "return"
    /\ NetStep(LAMBDA f : f.v # NoTensor,
               LAMBDA f : [NoFrame EXCEPT !.ret = f.v],
               "done")
    /\ UNCHANGED <<net_m, net_it>>

NetForget ==
    /\ net_pc \in {"done", "error"}
    /\ net_pc' = "idle"
    /\ net_m' = 0
    /\ net_frames' = <<NoFrame, NoFrame>>
    /\ net_it' = 0

\* ---------------------------------------------------------------- specs
vars == <<routeVars, squashVars, lossVars, primVars, netVars>>

notRoute == <<squashVars, lossVars, primVars, netVars>>

notSquash == <<routeVars, lossVars, primVars, netVars>>

notLoss == <<routeVars, squashVars, primVars, netVars>>

notPrim == <<routeVars, squashVars, lossVars, netVars>>

notNet == <<routeVars, squashVars, lossVars, primVars>>

Init == RouteInit /\ SquashOff /\ LossOff /\ PrimOff /\ NetOff

Next ==
    \/ Forward /\ UNCHANGED notRoute
    \/ Votes /\ UNCHANGED notRoute
    \/ ZeroLogits /\ UNCHANGED notRoute
    \/ Coupling /\ UNCHANGED notRoute
    \/ Aggregate /\ UNCHANGED notRoute
    \/ Activate /\ UNCHANGED notRoute
    \/ Agree /\ UNCHANGED notRoute
    \/ Return /\ UNCHANGED notRoute

\* DigitCapsule.forward, called again and again on one layer
Spec == Init /\ [][Next]_vars

SquashSpecInit == SquashInit /\ RouteOff /\ LossOff /\ PrimOff /\ NetOff

SquashSpecNext ==
    \/ SquashCall /\ UNCHANGED notSquash
    \/ SquashRun /\ UNCHANGED notSquash
    \/ SquashForget /\ UNCHANGED notSquash

\* squash, called on tensors of capsule vectors
SpecSquash == SquashSpecInit /\ [][SquashSpecNext]_vars

LossSpecInit == LossInit /\ RouteOff /\ SquashOff /\ PrimOff /\ NetOff

LossSpecNext ==
    \/ LossCall /\ UNCHANGED notLoss
    \/ LossRun /\ UNCHANGED notLoss
    \/ LossForget /\ UNCHANGED notLoss

\* loss, called on outputs and targets
SpecLoss == LossSpecInit /\ [][LossSpecNext]_vars

PrimSpecInit == PrimInit /\ RouteOff /\ SquashOff /\ LossOff /\ NetOff

PrimSpecNext ==
    \/ PrimCall /\ UNCHANGED notPrim
    \/ PrimConvs /\ UNCHANGED notPrim
    \/ PrimCat /\ UNCHANGED notPrim
    \/ PrimView /\ UNCHANGED notPrim
    \/ PrimSquash /\ UNCHANGED notPrim
    \/ PrimForget /\ UNCHANGED notPrim

\* PrimaryCapsules.forward, called on feature maps
SpecPrimary == PrimSpecInit /\ [][PrimSpecNext]_vars

NetSpecInit == NetInit /\ RouteOff /\ SquashOff /\ LossOff /\ PrimOff

NetSpecNext ==
    \/ NetCall /\ UNCHANGED notNet
    \/ NetConv /\ UNCHANGED notNet
    \/ NetPrimary /\ UNCHANGED notNet
    \/ NetVotes /\ UNCHANGED notNet
    \/ NetZeroLogits /\ UNCHANGED notNet
    \/ NetCoupling /\ UNCHANGED notNet
    \/ NetAggregate /\ UNCHANGED notNet
    \/ NetActivate /\ UNCHANGED notNet
    \/ NetAgree /\ UNCHANGED notNet
    \/ NetReturn /\ UNCHANGED notNet
    \/ NetForget /\ UNCHANGED notNet

\* CapsNet.forward on two batches that differ in one sample
SpecBatch == NetSpecInit /\ [][NetSpecNext]_vars

\* --------------------------------------------------------------- claims
Ended == pc \in {"done", "error"}

\* the argument has the shape the layer was declared for
Consistent == arg_shape[2] = num_route_nodes /\ arg_shape[3] = InChannels

\* c as forward holds it: shape [1, rows, num_digits, 1]
Coef(i, j) == c.at[<<1, i, j, 1>>]

RowSum(i) == SumUpTo([j \in 1..NumDigits |-> Coef(i, j).n], NumDigits)

\* C1: whenever forward holds coupling coefficients c, they are softmax rows
\* over the higher capsules: one row per row of b (num_route_nodes rows in the
\* first iteration and in every pass over an argument of the declared shape),
\* every coefficient non-negative, every row summing to exactly 1; and the c
\* of the first iteration (computed from the zero b) is 1/num_digits
\* everywhere.
C1_CouplingRowsSumToOne ==
    c # NoTensor =>
        /\ Len(c.shape) = 4
        /\ c.shape[1] = 1 /\ c.shape[3] = NumDigits /\ c.shape[4] = 1
        /\ (pc \in {"aggregate", "activate", "agree"} => c.shape[2] = b.shape[1])
        /\ ((it = 0 \/ Consistent) => c.shape[2] = num_route_nodes)
        /\ \A i \in 1..c.shape[2] :
              /\ \A j \in 1..NumDigits :
                    /\ Coef(i, j).n >= 0
                    /\ Coef(i, j).d > 0
                    /\ Coef(i, j).d = Coef(i, 1).d
              /\ RowSum(i) = Coef(i, 1).d
        /\ (it = 0 =>
              \A i \in 1..c.shape[2], j \in 1..NumDigits :
                 Coef(i, j).n * NumDigits = Coef(i, j).d)

\* C1 witness: a later iteration of a pass over two or more lower capsules
\* holds coefficients, computed from a nonzero b, that are not uniform.
C1_Witness ==
    /\ pc = "aggregate"
    /\ it >= 1
    /\ num_route_nodes >= 2
    /\ \E i \in 1..num_route_nodes, j \in 1..NumDigits :
          Coef(i, j).n * NumDigits # Coef(i, j).d

\* C4: every pass over an argument of the declared shape, whatever its batch
\* size, ends without a shape error, and when it returns, returns a tensor
\* of shape (batch, 10, out_channels).
C4_EveryBatchSizeCompletes ==
    (Ended /\ Consistent) =>
        /\ err # "shape"
        /\ (pc = "done" => ret.shape = <<arg_shape[1], NumDigits, OutChannels>>)

\* C5: a pass over an argument whose number of capsules or capsule dimension
\* differs from the layer's declaration ends in an error, never in a result.
C5_MismatchIsAnError == (Ended /\ ~Consistent) => pc = "error"

RECURSIVE Repeat(_, _)
Repeat(q, n) == IF n = 0 THEN <<>> ELSE q \o Repeat(q, n - 1)

FullPass == <<"u_hat", "b0">> \o Repeat(<<"c", "s", "v", "b">>, num_iterations) \o <<"return">>

\* C9: every pass over an argument of the declared shape runs the votes once,
\* the zeroing of b, then num_iterations iterations of c, s, v, b in this
\* order, and returns; when it has ended b and c are gone.
C9_EveryPassRunsAllIterations ==
    (Ended /\ Consistent /\ num_iterations >= 1 /\ err # "assert") =>
        /\ pc = "done"
        /\ trace = FullPass
        /\ b = NoTensor
        /\ c = NoTensor

\* What holds of the order C9 describes: a pass over an argument of the declared
\* shape with a batch of two or more and two or more lower capsules, in which
\* squash does not raise, runs the full sequence and returns.
RoutingOrderOnRegularShapes ==
    (Ended /\ Consistent /\ arg_shape[1] >= 2 /\ num_route_nodes >= 2
       /\ num_iterations >= 1 /\ err # "assert") =>
        /\ pc = "done"
        /\ trace = FullPass
        /\ b = NoTensor
        /\ c = NoTensor

\* one capsule vector of a tensor [batch, capsules, dims], as a tensor
Vector(t, n, i) == Tensor(<<t.shape[3]>>, LAMBDA k : t.at[<<n, i, k[1]>>])

\* C2: squash maps every capsule vector to what squash gives for that vector
\* alone: its scale is a function of its own norm.
C2_EachVectorByItsOwnNorm ==
    sq_pc = "returned" =>
        \A n \in 1..sq_in.shape[1], i \in 1..sq_in.shape[2] :
           Norm(Vector(sq_in, n, i)) > 0 =>
              Vector(sq_out, n, i) = Squash(Vector(sq_in, n, i))

\* C3: squash raises whenever one of the capsule vectors passed to it has
\* norm zero.
C3_ZeroVectorRaises ==
    (sq_pc \in {"returned", "raised"}
       /\ \E n \in 1..sq_in.shape[1], i \in 1..sq_in.shape[2] :
             Norm(Vector(sq_in, n, i)) = 0)
      => sq_pc = "raised"

\* the target is one-hot in every sample, the capsule of the hot class has
\* norm 1 and every other capsule norm 0
IdealOutput(out, target) ==
    /\ target.shape = <<out.shape[1], NumDigits>>
    /\ \A n \in 1..out.shape[1] :
          \E k \in 1..NumDigits :
             \A j \in 1..NumDigits :
                /\ target.at[<<n, j>>] = (IF j = k THEN 1 ELSE 0)
                /\ Norm(Vector(out, n, j)) = (IF j = k THEN Scale ELSE 0)

\* C6: the loss of an ideal output is 0.
C6_IdealOutputHasZeroLoss ==
    (loss_pc = "returned" /\ IdealOutput(loss_v, loss_target)) => loss_out = 0

\* C7: the loss is never negative, for one-hot targets and for integer labels.
C7_LossIsNonNegative == loss_pc = "returned" => loss_out >= 0

PrimGridRows == ConvOutSize(prim_x.shape[3], Kernel, Conv2Stride)

PrimGridCols == ConvOutSize(prim_x.shape[4], Kernel, Conv2Stride)

\* C8: the output of PrimaryCapsules.forward holds, for every sample n,
\* caps_maps * height * width capsules, and every capsule of sample n is made
\* of the caps_dims channel values that one convolution produced at one
\* position for sample n.
C8_CapsuleIsOnePositionOfOneConv ==
    prim_pc = "returned" =>
        /\ prim_ret.shape = <<prim_x.shape[1], CapsMaps * PrimGridRows * PrimGridCols, CapsDims>>
        /\ \A n \in 1..prim_ret.shape[1], cap \in 1..prim_ret.shape[2] :
              \E m \in 1..CapsMaps, h \in 1..PrimGridRows, w \in 1..PrimGridCols :
                 {prim_origin.at[<<n, cap, k>>] : k \in 1..CapsDims}
                    = {Origin(m, <<n, ch, h, w>>) : ch \in 1..CapsDims}

\* C10: the output capsules of every sample whose image is the same in the
\* two batches are the same in the two results.
C10_OtherSamplesUnchanged ==
    net_pc = "done" =>
        \A n \in 1..net_frames[1].ret.shape[1] :
           n # net_m =>
              \A j \in 1..NumDigits, k \in 1..OutChannels :
                 net_frames[1].ret.at[<<n, j, k>>] = net_frames[2].ret.at[<<n, j, k>>]
====
